---- MODULE Spec2Model ----
(***************************************************************************)
(* Model of the dynamic-library probe of DllLoadMgr.cpp:                   *)
(*   DllMgr::TestDll, ScriptModule::CreateFromPath, the HandleHolder       *)
(*   (std::unique_ptr with SharedLibraryUnloader as deleter) and the       *)
(*   shared_ptr<ScriptModule> that owns it.                                *)
(* The program is single threaded: pc is the position of the one thread.   *)
(* The operating system (file system, dynamic loader) is the environment;  *)
(* every native call is recorded in `calls`, every log line in `log`.      *)
(***************************************************************************)
EXTENDS Integers, Sequences, FiniteSets, TLC

\* ------------------------------------------------------------------ bounds
\* Number of native handles the loader hands out in one run of the model.
MaxHandles == 2

\* ------------------------------------------------------------ environment
\* Arguments a caller passes as a path; "" is the empty path.
Paths == {"", "script_arm.dll", "other.dll"}
FilePaths == Paths \ {""}
\* std::optional<fs::path> without a value.
NoCache == "nullopt"
\* nullptr for a function pointer, NULL for a native handle.
NullPtr == "nullptr"
NullHandle == 0
\* An empty std::optional<std::shared_ptr<ScriptModule>>.
Empty == 0

\* The names CreateFromPath passes to the native lookup, in program order.
RequiredSymbols == <<"GetScriptRevisionHash", "AddScripts", "GetScriptName">>
RequiredSet == {RequiredSymbols[i] : i \in 1..3}
\* The C-linkage exports of the companion library.
ArmDllExports == {"GetScriptRevisionHash", "RegisterFunctions", "Print", "PrintValue"}
\* What a loadable file may export: any part of the required set, or the
\* companion library's exports.
\* The callbacks a host can hand to RegisterFunctions, and the ints it can
\* hand to PrintValue.
PrintFNs == {"onPrint", "onPrint2"}
PrintIntFNs == {"onPrintInt", "onPrintInt2"}
Values == {-1, 0, 7}
\* A std::function without a target.
EmptyFunction == "empty"
\* registered, before any RegisterFunctions call.
Never == <<>>

Libraries == (SUBSET RequiredSet) \cup {ArmDllExports}

VARIABLES
    pc,          \* position of the thread
    caller,      \* who called CreateFromPath: "TestDll" or "Host"
    dllPath,     \* TestDll's argument
    path,        \* CreateFromPath's argument path
    cache_path,  \* CreateFromPath's argument cache_path (NoCache: none)
    handle,      \* CreateFromPath's local handle
    holder,      \* CreateFromPath's local HandleHolder: the handle it owns, or NullHandle
    fns,         \* CreateFromPath's three local function pointers
    dllScript,   \* value returned by CreateFromPath: Empty or a module
    dllInvoke,   \* TestDll's local copy of the shared_ptr: Empty or a module
    mods,        \* live ScriptModule objects: id -> fields and use count
    held,        \* modules a host keeps after a direct CreateFromPath
    fsFiles,     \* files that exist
    libOf,       \* handle -> exports of the library mapped under it
    mapped,      \* handles the loader still has mapped
    unloadCalls, \* handle -> number of native unload calls issued on it
    nextH,       \* number of handles handed out so far
    calls,       \* native calls and module-function calls of the current operation
    log,         \* log lines of the current operation
    counter,     \* AddScripts invocations of the current operation
    prevFailure  \* history: what the last failed CreateFromPath call returned

\* The companion library's state (ArmDll.cpp) and the trace of the last call
\* made into it.
VARIABLES
    functionBest,   \* std::function<void()>: its target, or EmptyFunction
    printInt,       \* std::function<void(int, int)>: its target, or EmptyFunction
    registered,     \* history: the arguments of the latest RegisterFunctions call
    armOp,          \* trace: the last call made into the library
    armOut,         \* trace: the lines that call wrote with printf
    armCalls        \* trace: the callbacks that call invoked

armlib == <<functionBest, printInt, registered, armOp, armOut, armCalls>>

vars == <<pc, caller, dllPath, path, cache_path, handle, holder, fns, dllScript,
          dllInvoke, mods, held, fsFiles, libOf, mapped, unloadCalls, nextH,
          calls, log, counter, prevFailure,
          functionBest, printInt, registered, armOp, armOut, armCalls>>

Handles == 1..MaxHandles

\* ------------------------------------------------------------ trace items
Call(op, arg, h, res) == [op |-> op, arg |-> arg, h |-> h, res |-> res]
Msg(level, cat, text, sym, a1, a2) ==
    [level |-> level, cat |-> cat, text |-> text, sym |-> sym, a1 |-> a1, a2 |-> a2]

\* ------------------------------------------------- SharedLibraryUnloader
\* The messages of SharedLibraryUnloader::operator().
MsgUnloadFailed(p) == Msg("ERROR", "scripts.hotswap", "Failed to unload (syscall) the shared library", "", p, "")
MsgDeleteFailed(cp) == Msg("ERROR", "dll", "Failed to delete the cached shared library", "", cp, "")
MsgUnloadedDeleted(p, cp) == Msg("DEBUG", "scripts.hotswap", "Lazy unloaded the shared library and deleted it's cached version", "", p, cp)
MsgUnloaded(p) == Msg("TRACE", "scripts.hotswap", "Lazy unloaded the shared library", "", p, "")

\* The native calls and log lines of one run of the deleter, given the
\* results the operating system returns (success, removed).  The run itself
\* is recorded first, with the cache_path_ member of the deleter.
\* Mutant: the return after a failed unload is missing.
UnloaderCalls_noReturn(h, cp, success, removed) ==
    <<Call("deleter", cp, h, TRUE), Call("unload", "", h, success)>> \o
    (IF cp # NoCache THEN <<Call("remove", cp, h, removed)>> ELSE <<>>)

\* if (!success) return;  if (cache_path_) fs::remove(*cache_path_, error);
UnloaderCalls(h, cp, success, removed) ==
    <<Call("deleter", cp, h, TRUE), Call("unload", "", h, success)>> \o
    (IF success /\ cp # NoCache THEN <<Call("remove", cp, h, removed)>> ELSE <<>>)

\* Mutant: the result of the unload call is not tested.
UnloaderLog_untested(p, cp, success, removed) ==
    IF cp # NoCache
    THEN IF ~removed THEN <<MsgDeleteFailed(cp)>>
         ELSE <<MsgUnloadedDeleted(p, cp)>>
    ELSE <<MsgUnloaded(p)>>

UnloaderLog(p, cp, success, removed) ==
    IF ~success THEN <<MsgUnloadFailed(p)>>
    ELSE IF cp # NoCache
         THEN IF ~removed THEN <<MsgDeleteFailed(cp)>>
              ELSE <<MsgUnloadedDeleted(p, cp)>>
         ELSE <<MsgUnloaded(p)>>

\* SharedLibraryUnloader::operator()(handle): FreeLibrary/dlclose, then, when
\* the library was cached, fs::remove of the cached copy.  fs::remove
\* returns true only when it deleted an existing file.
Unloader(h, p, cp, callsIn, logIn) ==
    \E success \in BOOLEAN, rmOk \in BOOLEAN :
        LET removed == rmOk /\ cp \in fsFiles
        IN  /\ calls' = callsIn \o UnloaderCalls(h, cp, success, removed)
            /\ log' = logIn \o UnloaderLog(p, cp, success, removed)
            /\ unloadCalls' = [unloadCalls EXCEPT ![h] = @ + 1]
            /\ mapped' = IF success THEN mapped \ {h} ELSE mapped
            /\ fsFiles' = IF success /\ cp # NoCache /\ removed
                          THEN fsFiles \ {cp} ELSE fsFiles

\* Mutant: the holder gives its handle up without running the deleter.
DestroyHolder_leak(hh, p, cp, callsIn, logIn) ==
    /\ calls' = callsIn
    /\ log' = logIn
    /\ UNCHANGED <<unloadCalls, mapped, fsFiles>>

\* ~unique_ptr of a HandleHolder holding hh: the deleter runs only on a
\* non-null handle.
DestroyHolder(hh, p, cp, callsIn, logIn) ==
    IF hh # NullHandle
    THEN Unloader(hh, p, cp, callsIn, logIn)
    ELSE /\ calls' = callsIn
         /\ log' = logIn
         /\ UNCHANGED <<unloadCalls, mapped, fsFiles>>

\* Mutant: dropping any reference destroys the module.
ReleaseRef_eager(m, callsIn, logIn) ==
    /\ mods' = [x \in DOMAIN mods \ {m} |-> mods[x]]
    /\ DestroyHolder(mods[m].handle, mods[m].path, mods[m].cache, callsIn, logIn)

\* Dropping one shared_ptr reference to module m: the last one destroys the
\* ScriptModule, whose _handle member runs the deleter.
ReleaseRef(m, callsIn, logIn) ==
    IF mods[m].refs > 1
    THEN /\ mods' = [mods EXCEPT ![m].refs = @ - 1]
         /\ calls' = callsIn
         /\ log' = logIn
         /\ UNCHANGED <<unloadCalls, mapped, fsFiles>>
    ELSE /\ mods' = [x \in DOMAIN mods \ {m} |-> mods[x]]
         /\ DestroyHolder(mods[m].handle, mods[m].path, mods[m].cache, callsIn, logIn)

\* The loader's record for a handle with nothing mapped under it.
NothingMapped == {}
\* At the start of an operation the loader keeps records of mapped handles only.
Forget(l) == [h \in Handles |-> IF h \in mapped THEN l[h] ELSE NothingMapped]

\* ------------------------------------------------------------------- Init
Init ==
    /\ pc = "idle"
    /\ caller = "none"
    /\ dllPath = ""
    /\ path = ""
    /\ cache_path = NoCache
    /\ handle = NullHandle
    /\ holder = NullHandle
    /\ fns = <<NullPtr, NullPtr, NullPtr>>
    /\ dllScript = Empty
    /\ dllInvoke = Empty
    /\ mods = <<>>
    /\ held = {}
    /\ fsFiles \in SUBSET FilePaths
    /\ libOf = [h \in Handles |-> NothingMapped]
    /\ mapped = {}
    /\ unloadCalls = [h \in Handles |-> 0]
    /\ nextH = 0
    /\ calls = <<>>
    /\ log = <<>>
    /\ counter = 0
    /\ prevFailure = [reason |-> "none", value |-> Empty, text |-> "", sym |-> ""]
    /\ functionBest = EmptyFunction
    /\ printInt = EmptyFunction
    /\ registered = Never
    /\ armOp = [op |-> "none", args |-> <<>>]
    /\ armOut = <<>>
    /\ armCalls = <<>>


\* ------------------------------------------------------------ log messages
\* ScriptModule::CreateFromPath
MsgCouldNotLoadCached(p, cp) == Msg("ERROR", "scripts.hotswap", "Could not dynamic load the shared library (the library is cached)", "", p, cp)
MsgCouldNotLoad(p) == Msg("ERROR", "scripts.hotswap", "Could not dynamic load the shared library", "", p, "")
\* Mutant: the three lines quote the same name.
ReportedName_pasted(k) == "GetScriptModuleRevisionHash"

\* The symbol name each "Could not extract" line quotes.
ReportedName(k) ==
    CASE k = 1 -> "GetScriptModuleRevisionHash"
      [] k = 2 -> "AddScripts"
      [] k = 3 -> "GetScriptName"
MsgCouldNotExtract(k, lp) == Msg("ERROR", "scripts.hotswap", "Could not extract function from library", ReportedName(k), lp, "")
\* DllMgr::TestDll
MsgEmptyPath == Msg("ERROR", "dll", "Empty dll path!", "", "", "")
MsgNotFound(p) == Msg("ERROR", "dll", "Not found file", "", p, "")
MsgCantLoad(p) == Msg("ERROR", "dll", "Can't load dll", "", p, "")
MsgDllInfo == Msg("INFO", "dll", "Dll info:", "", "", "")
MsgPath(p) == Msg("INFO", "dll", "Path", "", p, "")
MsgHash(hash) == Msg("INFO", "dll", "Hash", "", hash, "")

\* ------------------------------------------------------- CreateFromPath
\* Mutant: the cache path is ignored.
LoadPath_original(p, cp) == p

\* The path handed to LoadLibrary/dlopen.
LoadPath(p, cp) == IF cp # NoCache THEN cp ELSE p

\* Mutant: the second and third lookups are swapped.
LookupName_swapped(k) == RequiredSymbols[IF k = 2 THEN 3 ELSE IF k = 3 THEN 2 ELSE k]

\* The name the k-th lookup passes to GetProcAddress/dlsym.
LookupName(k) == RequiredSymbols[k]

\* Mutant: the result of the lookup is not tested.
GetFunctionFromSharedLibrary_unchecked(h, name) == name

\* GetFunctionFromSharedLibrary: the pointer GetProcAddress/dlsym yields for
\* `name` in the library mapped under h; the function returns fn != nullptr.
GetFunctionFromSharedLibrary(h, name) ==
    IF name \in libOf[h] THEN name ELSE NullPtr

\* Mutant: no holder is built around the handle.
HolderOf_none(h) == NullHandle
\* Mutant: the holder always wraps the first handle the process opened.
HolderOf_first(h) == 1

\* The HandleHolder built right after a successful open.
HolderOf(h) == h

SymPc(k) == <<"cfp_sym1", "cfp_sym2", "cfp_sym3">>[k]
\* Mutant: a failed attempt starts over instead of returning.
AfterFailure_retry == "cfp_open"
\* `return {}`: a failed attempt returns to the caller.
AfterFailure == "cfp_ret"
\* Where control goes after the k-th lookup succeeded.
\* Mutant: a found symbol is looked up again.
AfterFound_again(k) == SymPc(k)
\* The position after the k-th symbol was found.
AfterFound(k) == IF k < 3 THEN SymPc(k + 1) ELSE "cfp_make"

\* LoadLibrary / dlopen(RTLD_LAZY) on load_path, the !handle branch, and the
\* construction of the HandleHolder.
CFP_Open ==
    /\ pc = "cfp_open"
    /\ LET lp == LoadPath(path, cache_path) IN
       \/ \* the loader returns NULL
          /\ calls' = calls \o <<Call("open", lp, NullHandle, FALSE)>>
          /\ log' = log \o <<IF cache_path # NoCache
                             THEN MsgCouldNotLoadCached(path, cache_path)
                             ELSE MsgCouldNotLoad(path)>>
          /\ dllScript' = Empty
          /\ pc' = AfterFailure
          /\ UNCHANGED <<handle, holder, libOf, mapped, nextH>>
       \/ \* the loader maps the file and returns a fresh handle
          /\ lp \in fsFiles
          /\ nextH < MaxHandles
          /\ \E lib \in Libraries :
                LET h == nextH + 1 IN
                /\ calls' = calls \o <<Call("open", lp, h, TRUE)>>
                /\ nextH' = h
                /\ handle' = h
                /\ holder' = HolderOf(h)
                /\ libOf' = [libOf EXCEPT ![h] = lib]
                /\ mapped' = mapped \cup {h}
                /\ pc' = SymPc(1)
                /\ UNCHANGED <<log, dllScript>>
    /\ UNCHANGED <<caller, dllPath, path, cache_path, fns, dllInvoke, mods, held,
                   fsFiles, unloadCalls, counter>>
    /\ UNCHANGED prevFailure
    /\ UNCHANGED armlib

\* The k-th `if (!GetFunctionFromSharedLibrary(handle, name, fn))`: on a
\* missing symbol it logs, returns {} and the local holder is destroyed.
CFP_Resolve(k) ==
    /\ pc = SymPc(k)
    /\ LET name == LookupName(k)
           fn == GetFunctionFromSharedLibrary(handle, name)
           lookup == <<Call("sym", name, handle, fn # NullPtr)>>
       IN  /\ fns' = [fns EXCEPT ![k] = fn]
           /\ IF fn # NullPtr
              THEN /\ calls' = calls \o lookup
                   /\ pc' = AfterFound(k)
                   /\ UNCHANGED <<log, dllScript, holder, unloadCalls, mapped, fsFiles>>
              ELSE /\ DestroyHolder(holder, path, cache_path, calls \o lookup,
                                    log \o <<MsgCouldNotExtract(k, LoadPath(path, cache_path))>>)
                   /\ holder' = NullHandle
                   /\ dllScript' = Empty
                   /\ pc' = AfterFailure
    /\ UNCHANGED <<caller, dllPath, path, cache_path, handle, dllInvoke, mods, held,
                   libOf, nextH, counter>>
    /\ UNCHANGED prevFailure
    /\ UNCHANGED armlib

\* std::make_shared<ScriptModule>(std::move(holder), ...): the module takes
\* the holder; the moved-from local holds null and its destructor does nothing.
CFP_Make ==
    /\ pc = "cfp_make"
    /\ mods' = mods @@ (handle :> [handle |-> holder, fns |-> fns, path |-> path,
                                   cache |-> cache_path, refs |-> 1])
    /\ holder' = NullHandle
    /\ dllScript' = handle
    /\ pc' = "cfp_ret"
    /\ UNCHANGED <<caller, dllPath, path, cache_path, handle, fns, dllInvoke, held,
                   fsFiles, libOf, mapped, unloadCalls, nextH, calls, log, counter>>
    /\ UNCHANGED prevFailure
    /\ UNCHANGED armlib


\* ------------------------------------------------------------ DllMgr::TestDll
\* What calling the pointer fn of the module yields as its C string.
ModuleString(fn) == IF fn = "GetScriptRevisionHash" THEN "_HASH" ELSE fn

\* A caller invokes sDllMgr->TestDll(p).  Locals of earlier calls are dead.
CallTestDll(p) ==
    /\ pc = "idle"
    /\ nextH < MaxHandles
    /\ pc' = "td_begin"
    /\ caller' = "TestDll"
    /\ dllPath' = p
    /\ path' = ""
    /\ cache_path' = NoCache
    /\ handle' = NullHandle
    /\ holder' = NullHandle
    /\ fns' = <<NullPtr, NullPtr, NullPtr>>
    /\ dllScript' = Empty
    /\ dllInvoke' = Empty
    /\ calls' = <<>>
    /\ log' = <<>>
    /\ counter' = 0
    /\ libOf' = Forget(libOf)
    /\ UNCHANGED <<mods, held, fsFiles, mapped, unloadCalls, nextH>>
    /\ UNCHANGED prevFailure
    /\ UNCHANGED armlib

\* Mutant: the empty path is not detected.
PathEmpty_never(p) == FALSE

\* fs::path::empty()
PathEmpty(p) == p = ""

\* fs::path pathToDll(dllPath); if (pathToDll.empty()) { log; return; }
TD_CheckEmpty ==
    /\ pc = "td_begin"
    /\ IF PathEmpty(dllPath)
       THEN /\ log' = log \o <<MsgEmptyPath>>
            /\ pc' = "idle"
       ELSE /\ pc' = "td_exists"
            /\ UNCHANGED log
    /\ UNCHANGED <<caller, dllPath, path, cache_path, handle, holder, fns, dllScript,
                   dllInvoke, mods, held, fsFiles, libOf, mapped, unloadCalls, nextH,
                   calls, counter>>
    /\ UNCHANGED prevFailure
    /\ UNCHANGED armlib

\* Mutant: the return after "Not found file" is missing.
AfterExists_noReturn(found) == "td_create"

\* Where TestDll goes after fs::exists answered: it returns when the file
\* is not there.
AfterExists(found) == IF found THEN "td_create" ELSE "idle"

\* if (!fs::exists(pathToDll)) { log; return; }
TD_Exists ==
    /\ pc = "td_exists"
    /\ LET found == dllPath \in fsFiles IN
       /\ calls' = calls \o <<Call("exists", dllPath, NullHandle, found)>>
       /\ log' = IF ~found THEN log \o <<MsgNotFound(dllPath)>> ELSE log
       /\ pc' = AfterExists(found)
    /\ UNCHANGED <<caller, dllPath, path, cache_path, handle, holder, fns, dllScript,
                   dllInvoke, mods, held, fsFiles, libOf, mapped, unloadCalls, nextH,
                   counter>>
    /\ UNCHANGED prevFailure
    /\ UNCHANGED armlib

\* auto dllScript = ScriptModule::CreateFromPath(pathToDll, {});
\* Mutant: TestDll hands CreateFromPath a cached copy of the library.
CacheArgument_copy(p) == IF p = "other.dll" THEN "script_arm.dll" ELSE "other.dll"

\* The second argument of CreateFromPath(pathToDll, {}).
CacheArgument(p) == NoCache

TD_Create ==
    /\ pc = "td_create"
    /\ path' = dllPath
    /\ cache_path' = CacheArgument(dllPath)
    /\ pc' = "cfp_open"
    /\ UNCHANGED <<caller, dllPath, handle, holder, fns, dllScript, dllInvoke, mods,
                   held, fsFiles, libOf, mapped, unloadCalls, nextH, calls, log, counter>>
    /\ UNCHANGED prevFailure
    /\ UNCHANGED armlib

\* Why the CreateFromPath call that just returned failed, read off the native
\* calls it made: the open that returned NULL, or the lookup that found nothing.
FailedCalls == SelectSeq(calls, LAMBDA c : c.op \in {"open", "sym"} /\ ~c.res)
FailureReason ==
    IF FailedCalls = <<>> THEN "none"
    ELSE IF FailedCalls[1].op = "open" THEN "open" ELSE FailedCalls[1].arg

\* History of the value the caller is handed, kept when it is a failure.
Observe ==
    prevFailure' = IF FailureReason = "none" THEN prevFailure
                   ELSE [reason |-> FailureReason, value |-> dllScript,
                         text |-> log[1].text, sym |-> log[1].sym]

\* if (!dllScript) { log; return; }
TD_Check ==
    /\ pc = "cfp_ret"
    /\ caller = "TestDll"
    /\ Observe
    /\ IF dllScript = Empty
       THEN /\ log' = log \o <<MsgCantLoad(dllPath)>>
            /\ pc' = "idle"
       ELSE /\ pc' = "td_copy"
            /\ UNCHANGED log
    /\ UNCHANGED <<caller, dllPath, path, cache_path, handle, holder, fns, dllScript,
                   dllInvoke, mods, held, fsFiles, libOf, mapped, unloadCalls, nextH,
                   calls, counter>>
    /\ UNCHANGED armlib

\* auto dllInvoke = *dllScript;  (a second reference to the module)
TD_Copy ==
    /\ pc = "td_copy"
    /\ dllInvoke' = dllScript
    /\ mods' = [mods EXCEPT ![dllScript].refs = @ + 1]
    /\ pc' = "td_info"
    /\ UNCHANGED <<caller, dllPath, path, cache_path, handle, holder, fns, dllScript,
                   held, fsFiles, libOf, mapped, unloadCalls, nextH, calls, log, counter>>
    /\ UNCHANGED prevFailure
    /\ UNCHANGED armlib

\* ScriptModule::GetScriptRevisionHash() calls _getScriptModuleRevisionHash,
\* ScriptModule::AddScripts() calls _addScripts.
HashPtr(m) == m.fns[1]
\* Mutant: AddScripts() calls the name pointer.
AddScriptsPtr_name(m) == m.fns[3]
AddScriptsPtr(m) == m.fns[2]

\* The three LOG_INFO lines; the last calls dllInvoke->GetScriptRevisionHash().
TD_Info ==
    /\ pc = "td_info"
    /\ LET m == mods[dllInvoke]
           fn == HashPtr(m)
       IN  /\ calls' = calls \o <<Call("invoke", fn, m.handle, m.handle \in mapped)>>
           /\ log' = log \o <<MsgDllInfo, MsgPath(dllPath), MsgHash(ModuleString(fn))>>
    /\ pc' = "td_add"
    /\ UNCHANGED <<caller, dllPath, path, cache_path, handle, holder, fns, dllScript,
                   dllInvoke, mods, held, fsFiles, libOf, mapped, unloadCalls, nextH,
                   counter>>
    /\ UNCHANGED prevFailure
    /\ UNCHANGED armlib

\* (*dllScript)->AddScripts();
TD_AddScripts ==
    /\ pc = "td_add"
    /\ LET m == mods[dllScript]
           fn == AddScriptsPtr(m)
       IN  /\ calls' = calls \o <<Call("invoke", fn, m.handle, m.handle \in mapped)>>
           /\ counter' = IF fn = "AddScripts" THEN counter + 1 ELSE counter
    /\ pc' = "td_exit1"
    /\ UNCHANGED <<caller, dllPath, path, cache_path, handle, holder, fns, dllScript,
                   dllInvoke, mods, held, fsFiles, libOf, mapped, unloadCalls, nextH,
                   log>>
    /\ UNCHANGED prevFailure
    /\ UNCHANGED armlib

\* Scope exit, first local destroyed: dllInvoke.
TD_DropInvoke ==
    /\ pc = "td_exit1"
    /\ ReleaseRef(dllInvoke, calls, log)
    /\ dllInvoke' = Empty
    /\ pc' = "td_exit2"
    /\ UNCHANGED <<caller, dllPath, path, cache_path, handle, holder, fns, dllScript,
                   held, libOf, nextH, counter>>
    /\ UNCHANGED prevFailure
    /\ UNCHANGED armlib

\* Scope exit, second local destroyed: dllScript; TestDll returns.
TD_DropScript ==
    /\ pc = "td_exit2"
    /\ ReleaseRef(dllScript, calls, log)
    /\ dllScript' = Empty
    /\ pc' = "idle"
    /\ UNCHANGED <<caller, dllPath, path, cache_path, handle, holder, fns, dllInvoke,
                   held, libOf, nextH, counter>>
    /\ UNCHANGED prevFailure
    /\ UNCHANGED armlib

\* ------------------------------------------------- a host of CreateFromPath
\* A caller invokes ScriptModule::CreateFromPath(p, cp) itself, with or
\* without a cached copy of the library.
HostCreate(p, cp) ==
    /\ pc = "idle"
    /\ nextH < MaxHandles
    /\ cp # p
    /\ pc' = "cfp_open"
    /\ caller' = "Host"
    /\ path' = p
    /\ cache_path' = cp
    /\ dllPath' = ""
    /\ handle' = NullHandle
    /\ holder' = NullHandle
    /\ fns' = <<NullPtr, NullPtr, NullPtr>>
    /\ dllScript' = Empty
    /\ dllInvoke' = Empty
    /\ calls' = <<>>
    /\ log' = <<>>
    /\ counter' = 0
    /\ libOf' = Forget(libOf)
    /\ UNCHANGED <<mods, held, fsFiles, mapped, unloadCalls, nextH>>
    /\ UNCHANGED prevFailure
    /\ UNCHANGED armlib

\* The host takes the returned optional; it keeps a returned module.
HostReceive ==
    /\ pc = "cfp_ret"
    /\ caller = "Host"
    /\ Observe
    /\ held' = IF dllScript # Empty THEN held \cup {dllScript} ELSE held
    /\ dllScript' = Empty
    /\ pc' = "idle"
    /\ UNCHANGED <<caller, dllPath, path, cache_path, handle, holder, fns, dllInvoke,
                   mods, fsFiles, libOf, mapped, unloadCalls, nextH, calls, log, counter>>
    /\ UNCHANGED armlib

\* The host drops its reference to module m.
HostDrop(m) ==
    /\ pc = "idle"
    /\ m \in held
    /\ ReleaseRef(m, <<>>, <<>>)
    /\ held' = held \ {m}
    /\ caller' = "Host"
    /\ counter' = 0
    /\ libOf' = Forget(libOf)
    /\ UNCHANGED <<pc, dllPath, path, cache_path, handle, holder, fns, dllScript,
                   dllInvoke, nextH>>
    /\ UNCHANGED prevFailure
    /\ UNCHANGED armlib

\* The host calls one of the three methods of a module it holds:
\* GetScriptRevisionHash(), AddScripts() or GetScriptName(), each a call
\* through the stored function pointer.
HostInvoke(m, k) ==
    /\ pc = "idle"
    /\ m \in held
    /\ calls' = <<Call("invoke", mods[m].fns[k], mods[m].handle,
                       mods[m].handle \in mapped)>>
    /\ log' = <<>>
    /\ caller' = "Host"
    /\ counter' = IF mods[m].fns[k] = "AddScripts" THEN 1 ELSE 0
    /\ libOf' = Forget(libOf)
    /\ UNCHANGED <<pc, dllPath, path, cache_path, handle, holder, fns, dllScript,
                   dllInvoke, mods, held, fsFiles, mapped, unloadCalls, nextH>>
    /\ UNCHANGED prevFailure
    /\ UNCHANGED armlib

\* ------------------------------------------------- the companion library
\* Mutant: the std::function keeps a null pointer as its target.
Target_keepNull(fp) == fp

\* std::function's assignment from a function pointer: a null pointer leaves
\* the std::function without a target.
Target(fp) == IF fp = NullPtr THEN EmptyFunction ELSE fp

\* printf's %u of an int: the value modulo 2^32, kept as its high and low
\* 16-bit halves.
AsUnsigned(x) == <<(x \div 65536) % 65536, x % 65536>>

Invocation(fn, args) == [fn |-> fn, args |-> args]

\* RegisterFunctions(printFn, printIntFn)
RegisterFunctions(printFn, printIntFn) ==
    /\ pc = "idle"
    /\ functionBest' = Target(printFn)
    /\ printInt' = Target(printIntFn)
    /\ registered' = <<printFn, printIntFn>>
    /\ armOp' = [op |-> "RegisterFunctions", args |-> <<printFn, printIntFn>>]
    /\ armOut' = <<>>
    /\ armCalls' = <<>>
    /\ UNCHANGED <<pc, caller, dllPath, path, cache_path, handle, holder, fns, dllScript,
                   dllInvoke, mods, held, fsFiles, libOf, mapped, unloadCalls, nextH,
                   calls, log, counter, prevFailure>>

\* Print()
PrintExport ==
    /\ pc = "idle"
    /\ armOp' = [op |-> "Print", args |-> <<>>]
    /\ IF functionBest = EmptyFunction
       THEN /\ armOut' = <<"!functionBest">>
            /\ armCalls' = <<>>
       ELSE /\ armOut' = <<"Print">>
            /\ armCalls' = <<Invocation(functionBest, <<>>)>>
    /\ UNCHANGED <<functionBest, printInt, registered>>
    /\ UNCHANGED <<pc, caller, dllPath, path, cache_path, handle, holder, fns, dllScript,
                   dllInvoke, mods, held, fsFiles, libOf, mapped, unloadCalls, nextH,
                   calls, log, counter, prevFailure>>

\* PrintValue(value, value1)
PrintValue(value, value1) ==
    /\ pc = "idle"
    /\ armOp' = [op |-> "PrintValue", args |-> <<value, value1>>]
    /\ IF printInt = EmptyFunction
       THEN /\ armOut' = <<"!printInt">>
            /\ armCalls' = <<>>
       ELSE /\ armOut' = <<<<"PrintValue", AsUnsigned(value), AsUnsigned(value1)>>>>
            /\ armCalls' = <<Invocation(printInt, <<value, value1>>)>>
    /\ UNCHANGED <<functionBest, printInt, registered>>
    /\ UNCHANGED <<pc, caller, dllPath, path, cache_path, handle, holder, fns, dllScript,
                   dllInvoke, mods, held, fsFiles, libOf, mapped, unloadCalls, nextH,
                   calls, log, counter, prevFailure>>

\* ------------------------------------------------------------------- Next
Next ==
    \/ \E p \in Paths : CallTestDll(p)
    \/ TD_CheckEmpty
    \/ TD_Exists
    \/ TD_Create
    \/ CFP_Open
    \/ CFP_Resolve(1)
    \/ CFP_Resolve(2)
    \/ CFP_Resolve(3)
    \/ CFP_Make
    \/ TD_Check
    \/ TD_Copy
    \/ TD_Info
    \/ TD_AddScripts
    \/ TD_DropInvoke
    \/ TD_DropScript
    \/ \E p \in FilePaths, cp \in FilePaths \cup {NoCache} : HostCreate(p, cp)
    \/ HostReceive
    \/ \E m \in Handles : HostDrop(m)
    \/ \E m \in Handles, k \in 1..3 : HostInvoke(m, k)

Spec == Init /\ [][Next]_vars

\* A host that calls the companion library's exports directly.
ArmNext ==
    \/ \E f \in PrintFNs \cup {NullPtr}, g \in PrintIntFNs \cup {NullPtr} :
          RegisterFunctions(f, g)
    \/ PrintExport
    \/ \E a \in Values, b \in Values : PrintValue(a, b)

SpecArm == Init /\ [][ArmNext]_vars

\* One step of a call in progress: TestDll and CreateFromPath are sequential
\* code, and each native call and each module function they call returns.
Step ==
    \/ TD_CheckEmpty \/ TD_Exists \/ TD_Create
    \/ CFP_Open \/ CFP_Resolve(1) \/ CFP_Resolve(2) \/ CFP_Resolve(3) \/ CFP_Make
    \/ TD_Check \/ TD_Copy \/ TD_Info \/ TD_AddScripts
    \/ TD_DropInvoke \/ TD_DropScript
    \/ HostReceive

\* The program under the assumption that a call in progress keeps running.
SpecFair == Spec /\ WF_vars(Step)


\* ======================================================================
\* Properties
\* ======================================================================
\* The required entry points, in the order the specification gives.
ClaimedOrder == <<"GetScriptRevisionHash", "AddScripts", "GetScriptName">>
ClaimedSet == {"GetScriptRevisionHash", "AddScripts", "GetScriptName"}
\* The lookups of the current operation, and whether one found nothing.
Lookups == SelectSeq(calls, LAMBDA c : c.op = "sym")
SymbolMissing == \E i \in DOMAIN calls : calls[i].op = "sym" /\ ~calls[i].res
OpenSucceeded == \E i \in DOMAIN calls : calls[i].op = "open" /\ calls[i].res
\* h is owned by the local holder of CreateFromPath or by a live module.
Owned(h) == holder = h \/ \E m \in DOMAIN mods : mods[m].handle = h
ErrorLines == SelectSeq(log, LAMBDA l : l.level = "ERROR")

\* C1: a handle the native open returned gets the native unload call exactly
\* once, on every exit path: none while the holder or a module still owns it,
\* one as soon as nothing owns it, never two; when TestDll has returned, and
\* when CreateFromPath returns a failure, the call has been made.
C1_UnloadExactlyOnce ==
    /\ \A h \in 1..nextH : unloadCalls[h] = IF Owned(h) THEN 0 ELSE 1
    /\ (caller = "TestDll" /\ pc = "idle" /\ handle # NullHandle)
          => (unloadCalls[handle] = 1 /\ ~Owned(handle))
    /\ (pc = "cfp_ret" /\ dllScript = Empty /\ handle # NullHandle)
          => unloadCalls[handle] = 1

\* TestDll ran to completion on a conformant library and its handle was unloaded.
C1_Witness ==
    /\ caller = "TestDll" /\ pc = "idle" /\ counter = 1
    /\ handle # NullHandle /\ unloadCalls[handle] = 1

C3_ModuleIffAllResolved ==
    /\ pc = "cfp_ret" =>
          /\ (dllScript # Empty) <=>
                (OpenSucceeded /\ handle # NullHandle /\ ClaimedSet \subseteq libOf[handle])
          /\ (dllScript # Empty) <=> (ErrorLines = <<>>)
          /\ dllScript # Empty => dllScript \in DOMAIN mods
    /\ \A m \in DOMAIN mods : \A k \in 1..3 :
          /\ mods[m].fns[k] # NullPtr
          /\ mods[m].fns[k] = ClaimedOrder[k]
          /\ mods[m].fns[k] \in libOf[mods[m].handle]

\* CreateFromPath returns a module to a host.
C3_Witness == pc = "cfp_ret" /\ caller = "Host" /\ dllScript # Empty

\* The first required symbol, in order, that lib does not export; 0 if none.
FirstMissing(lib) ==
    IF \A k \in 1..3 : ClaimedOrder[k] \in lib THEN 0
    ELSE CHOOSE k \in 1..3 : /\ ClaimedOrder[k] \notin lib
                             /\ \A j \in 1..(k - 1) : ClaimedOrder[j] \in lib

\* C4: the lookups on an open handle are made in the order
\* GetScriptRevisionHash, AddScripts, GetScriptName, each after the
\* previous one succeeded; when the k-th is the first missing one, exactly k
\* lookups have been made when CreateFromPath returns.
C4_ResolutionOrder ==
    /\ Len(Lookups) <= 3
    /\ \A i \in 1..Len(Lookups) :
          /\ Lookups[i].arg = ClaimedOrder[i]
          /\ Lookups[i].h = handle
          /\ Lookups[i].res = (ClaimedOrder[i] \in libOf[handle])
          /\ (i < Len(Lookups) => Lookups[i].res)
    /\ (pc = "cfp_ret" /\ handle # NullHandle) =>
          Len(Lookups) = IF FirstMissing(libOf[handle]) = 0 THEN 3
                         ELSE FirstMissing(libOf[handle])

\* The second symbol is the first missing one, and two lookups were made.
C4_Witness ==
    /\ pc = "cfp_ret" /\ Len(Lookups) = 2 /\ ~Lookups[2].res
    /\ "GetScriptName" \in libOf[handle]


\* C5: when a required symbol is missing, the name the failed bind reports
\* is the name of the first missing symbol, the one passed to the lookup
\* that found nothing.
C5_ReportedNameIsFirstMissing ==
    (pc = "cfp_ret" /\ SymbolMissing) =>
        \E i \in DOMAIN log :
            /\ log[i].text = "Could not extract function from library"
            /\ log[i].sym = ClaimedOrder[FirstMissing(libOf[handle])]
            /\ log[i].sym = Lookups[Len(Lookups)].arg

NotFoundAnswered == \E i \in DOMAIN calls : calls[i].op = "exists" /\ ~calls[i].res
\* A line that reports the open-failed condition.
OpenFailedReported ==
    \E i \in DOMAIN log :
        log[i].text \in {"Could not dynamic load the shared library",
                         "Could not dynamic load the shared library (the library is cached)",
                         "Can't load dll"}

\* C7 as stated: for a path that does not exist TestDll fails with the
\* open-failed condition, makes no lookup and never invokes AddScripts.
C7_MissingPathFailsWithOpenFailed ==
    (caller = "TestDll" /\ pc = "idle" /\ NotFoundAnswered)
        => (OpenFailedReported /\ Lookups = <<>> /\ counter = 0)

\* C7 as amended: for a path that does not exist TestDll returns right after
\* the existence check with the single line "Not found file"; it reports no
\* open failure and makes no native open, no lookup, no AddScripts call.
C7_MissingPathRejectedBeforeOpen ==
    (caller = "TestDll" /\ NotFoundAnswered) =>
        /\ pc = "idle"
        /\ Len(calls) = 1
        /\ Len(log) = 1
        /\ log[1].level = "ERROR" /\ log[1].text = "Not found file" /\ log[1].a1 = dllPath
        /\ ~OpenFailedReported
        /\ counter = 0

\* TestDll returned for a non-empty path that names no file.
C7_Witness ==
    /\ caller = "TestDll" /\ pc = "idle" /\ dllPath = "script_arm.dll"
    /\ NotFoundAnswered

\* C8: given the empty path, TestDll returns at once with the one line
\* "Empty dll path!" and no native call (no existence check, open, lookup or
\* unload); that line is written in no other case, so the condition is
\* distinct from not-found, open-failed and symbol-missing.
C8_EmptyPathRejected ==
    /\ (caller = "TestDll" /\ dllPath = "" /\ pc # "td_begin") =>
          /\ pc = "idle"
          /\ calls = <<>>
          /\ Len(log) = 1
          /\ log[1].level = "ERROR" /\ log[1].text = "Empty dll path!"
    /\ \A i \in DOMAIN log :
          log[i].text = "Empty dll path!" => (caller = "TestDll" /\ dllPath = "")
    /\ \A i \in DOMAIN log :
          log[i].text \in {"Not found file", "Can't load dll",
                           "Could not dynamic load the shared library",
                           "Could not extract function from library"}
             => dllPath # "" \/ caller = "Host"

\* TestDll returned for the empty path.
C8_Witness == caller = "TestDll" /\ dllPath = "" /\ pc = "idle" /\ log # <<>>

\* The operations of the current run in order, without the record of the
\* deleter's own entry.
Steps ==
    LET native == SelectSeq(calls, LAMBDA c : c.op # "deleter")
    IN  [i \in 1..Len(native) |-> native[i].op]
AddScriptsCalls ==
    SelectSeq(calls, LAMBDA c : c.op = "invoke" /\ c.arg = "AddScripts")
\* The file is there, the loader maps it and it exports the three symbols.
Conformant ==
    /\ \E i \in DOMAIN calls : calls[i].op = "exists" /\ calls[i].res
    /\ OpenSucceeded
    /\ handle # NullHandle
    /\ ClaimedSet \subseteq libOf[handle]

\* C9: a completed TestDll on a conformant library made its steps in the
\* order existence check, open, the three lookups, revision hash,
\* AddScripts, unload, with AddScripts invoked once (counter 1) while the
\* library was mapped; on every other path AddScripts is never invoked.
C9_ProbeOrder ==
    /\ counter = Len(AddScriptsCalls)
    /\ counter <= 1
    /\ (caller = "TestDll" /\ pc = "idle") =>
          IF Conformant
          THEN /\ Steps = <<"exists", "open", "sym", "sym", "sym",
                            "invoke", "invoke", "unload">>
               /\ LET native == SelectSeq(calls, LAMBDA c : c.op # "deleter") IN
                  /\ native[6].arg = "GetScriptRevisionHash" /\ native[6].res
                  /\ native[7].arg = "AddScripts" /\ native[7].res
                  /\ \A i \in 2..8 : native[i].h = handle
               /\ counter = 1
          ELSE /\ counter = 0
               /\ \A i \in DOMAIN calls : calls[i].op # "invoke"

\* TestDll completed on a conformant library.
C9_Witness ==
    /\ caller = "TestDll" /\ pc = "idle" /\ Conformant
    /\ Len(AddScriptsCalls) = 1

\* C10: in a run of the deleter the cache file is deleted only right after a
\* successful unload call; after a failed unload nothing follows, after a
\* failed deletion nothing follows (no retry, no second unload, no reopen);
\* either way control is back with the caller.
C10_CacheDeletedOnlyAfterUnload ==
    /\ \A i \in DOMAIN calls :
          /\ calls[i].op = "deleter" =>
                /\ i < Len(calls)
                /\ calls[i + 1].op = "unload" /\ calls[i + 1].h = calls[i].h
                /\ IF calls[i + 1].res /\ calls[i].arg # NoCache
                   THEN /\ Len(calls) = i + 2
                        /\ calls[i + 2].op = "remove"
                        /\ calls[i + 2].arg = calls[i].arg
                        /\ (calls[i + 2].res => calls[i].arg \notin fsFiles)
                   ELSE Len(calls) = i + 1
                /\ pc \in {"cfp_ret", "idle"}
                /\ (pc = "cfp_ret" => calls[i].arg = cache_path)
          /\ calls[i].op = "remove" =>
                /\ i > 2
                /\ calls[i - 1].op = "unload" /\ calls[i - 1].res
                /\ calls[i - 2].op = "deleter"
    /\ \A h \in Handles : unloadCalls[h] <= 1

\* A host dropped a module opened through a cache path, and the unload failed.
C10_Witness ==
    /\ caller = "Host" /\ pc = "idle" /\ Len(calls) = 2
    /\ calls[1].op = "deleter" /\ calls[1].arg # NoCache
    /\ calls[2].op = "unload" /\ ~calls[2].res


\* The state of the load attempt in progress, read off the position of the
\* thread and the value about to be returned; "none" outside an attempt.
AttemptState ==
    CASE pc = "cfp_open" -> "Unopened"
      [] pc \in {"cfp_sym1", "cfp_sym2", "cfp_sym3"} -> "Opened"
      [] pc = "cfp_make" -> "Bound"
      [] pc = "cfp_ret" /\ dllScript # Empty -> "Ready"
      [] pc = "cfp_ret" /\ dllScript = Empty /\ handle = NullHandle -> "FailedOpen"
      [] pc = "cfp_ret" /\ dllScript = Empty /\ handle # NullHandle -> "FailedSymbol"
      [] OTHER -> "none"
Terminal == {"Ready", "FailedOpen", "FailedSymbol"}
AllowedTransitions ==
    {<<"Unopened", "Opened">>, <<"Opened", "Bound">>, <<"Bound", "Ready">>,
     <<"Opened", "FailedSymbol">>, <<"Unopened", "FailedOpen">>,
     <<"none", "Unopened">>} \cup {<<t, "none">> : t \in Terminal}
\* What each state of an attempt means for the handle and the pointers.
AttemptStateMeaning ==
    /\ AttemptState = "Unopened" => (handle = NullHandle /\ \A i \in DOMAIN calls : calls[i].op = "exists")
    /\ AttemptState = "Opened" => (handle \in mapped /\ holder = handle)
    /\ AttemptState = "Bound" => (holder = handle /\ \A k \in 1..3 : fns[k] # NullPtr)
    /\ AttemptState = "Ready" => (dllScript \in DOMAIN mods /\ mods[dllScript].handle = handle)
    /\ AttemptState = "FailedOpen" => ~OpenSucceeded
    /\ AttemptState = "FailedSymbol" => (SymbolMissing /\ holder = NullHandle)
\* In one operation there is one native open at most, and no open or lookup
\* after a failed one.
NoRetry ==
    /\ Len(SelectSeq(calls, LAMBDA c : c.op = "open")) <= 1
    /\ \A i, j \in DOMAIN calls :
          (i < j /\ calls[i].op \in {"open", "sym"} /\ ~calls[i].res)
              => calls[j].op \notin {"open", "sym"}

\* C11: an attempt moves only Unopened -> Opened -> Bound -> Ready,
\* Unopened -> Opened -> Failed(symbol) or Unopened -> Failed(open); Ready and
\* Failed are left only by the return to the caller, and after a failed
\* open or lookup the operation makes no further open or lookup.
C11_AttemptStateMachine ==
    /\ [](AttemptStateMeaning /\ NoRetry)
    /\ [][AttemptState' # AttemptState
            => <<AttemptState, AttemptState'>> \in AllowedTransitions]_vars

\* An attempt of TestDll has failed on a symbol of an opened library.
C11_Witness ==
    /\ AttemptState = "FailedSymbol" /\ caller = "TestDll"
    /\ Len(Lookups) = 1


\* C12 as stated: once nothing owns a handle any more (its module was
\* destroyed, or the bind failed), the handle is no longer open.
C12_NoHandleLeftOpen ==
    \A h \in 1..nextH : ~Owned(h) => h \notin mapped

\* C12 as amended: once nothing owns a handle any more, the unload call has
\* been issued on it exactly once; the handle is closed when that call
\* succeeded, and when the operating system refused it the handle stays
\* open and the refusal is logged.
C12_UnloadIssuedOnEveryHandle ==
    /\ \A h \in 1..nextH : ~Owned(h) => unloadCalls[h] = 1
    /\ \A i \in DOMAIN calls :
          calls[i].op = "unload" =>
             /\ calls[i].res <=> calls[i].h \notin mapped
             /\ ~calls[i].res <=>
                   \E j \in DOMAIN log :
                       /\ log[j].level = "ERROR"
                       /\ log[j].text = "Failed to unload (syscall) the shared library"

\* TestDll has returned and the unload of its handle was refused.
C12_Witness ==
    /\ caller = "TestDll" /\ pc = "idle" /\ counter = 1
    /\ handle \in mapped /\ ~Owned(handle)


\* Module m's three stored pointers can be called: its handle is open and
\* the library under it defines them.
Callable(m) ==
    /\ mods[m].handle \in mapped
    /\ unloadCalls[mods[m].handle] = 0
    /\ \A k \in 1..3 : mods[m].fns[k] \in libOf[mods[m].handle]

\* C13: every open, of the same path too, gives the module built from it a
\* handle of its own that no other module and no other holder has;
\* destroying one module leaves every other module's handle open and its
\* three functions callable, whichever is destroyed first, and no call
\* through a live module meets an unloaded library.
C13_IndependentHandles ==
    /\ \A m1, m2 \in DOMAIN mods :
          m1 # m2 => mods[m1].handle # mods[m2].handle
    /\ \A m \in DOMAIN mods :
          (holder # NullHandle /\ pc # "cfp_ret") => mods[m].handle # holder
    /\ \A m \in DOMAIN mods : Callable(m)
    /\ \A i \in DOMAIN calls : calls[i].op = "invoke" => calls[i].res

\* Two modules were bound from the same path; the one created first has just
\* been destroyed and unloaded, the other is still held and callable.
C13_Witness ==
    /\ pc = "idle" /\ caller = "Host"
    /\ \E m \in held :
          /\ Callable(m)
          /\ mods[m].cache = NoCache
          /\ \E i \in DOMAIN calls :
                /\ calls[i].op = "unload" /\ calls[i].res
                /\ calls[i].h < mods[m].handle
          /\ log = <<MsgUnloaded(mods[m].path)>>


\* C14: every name the binder resolves is among the exports of the companion
\* library, so an attempt that opened the companion library ends Ready.
C14_CompanionBindsReady ==
    (AttemptState \in Terminal /\ handle # NullHandle /\ libOf[handle] = ArmDllExports)
        => AttemptState = "Ready"


\* C15: when CreateFromPath is given a cache path, the native open is made on
\* the cache path and not on the original path; when that open fails, the
\* one error line names the original path and the cache path, the attempt
\* returns empty, and it makes no unload call and deletes no file.
C15_CachedOpen ==
    cache_path # NoCache =>
        \A i \in DOMAIN calls :
            calls[i].op = "open" =>
                /\ calls[i].arg = cache_path
                /\ calls[i].arg # path
                /\ ~calls[i].res =>
                      /\ log = <<MsgCouldNotLoadCached(path, cache_path)>>
                      /\ log[1].a1 = path /\ log[1].a2 = cache_path
                      /\ \A j \in DOMAIN calls :
                            calls[j].op \notin {"deleter", "unload", "remove"}
                      /\ AttemptState \in {"FailedOpen", "none"}
                      /\ dllScript = Empty

\* An attempt with a cache path has failed at the open although the
\* original file exists.
C15_Witness ==
    /\ cache_path # NoCache
    /\ AttemptState = "FailedOpen"
    /\ path \in fsFiles /\ cache_path \notin fsFiles
    /\ calls = <<Call("open", cache_path, NullHandle, FALSE)>>


\* Positions in the trace of the calls through resolved pointers, and of the
\* native unload calls.
Invokes == {i \in DOMAIN calls : calls[i].op = "invoke"}
Unloads == {i \in DOMAIN calls : calls[i].op = "unload"}

\* C16: in TestDll the module is held by two references from the copy up to
\* the end of the scope, and by one between the two scope-exit steps; the
\* unload is issued only when the last is dropped, so on the success path it
\* comes after the revision-hash call and the AddScripts call, both made on
\* an open handle, and no call through a resolved pointer follows an unload.
C16_UnloadAfterLastReference ==
    caller = "TestDll" =>
        /\ pc \in {"td_info", "td_add", "td_exit1"} =>
              /\ dllScript \in DOMAIN mods /\ dllInvoke = dllScript
              /\ mods[dllScript].refs = 2
        /\ pc = "td_exit2" =>
              /\ Unloads = {}
              /\ dllScript \in DOMAIN mods /\ dllInvoke = Empty
              /\ mods[dllScript].refs = 1
              /\ mods[dllScript].handle \in mapped
        /\ pc \in {"td_copy", "td_info", "td_add", "td_exit1"} => Unloads = {}
        /\ \A i \in Invokes : calls[i].res /\ \A j \in Unloads : i < j
        /\ (Unloads # {} /\ ~SymbolMissing) =>
              /\ pc = "idle" /\ dllScript = Empty /\ dllInvoke = Empty
              /\ Cardinality(Unloads) = 1
              /\ \E i, j \in Invokes :
                    /\ i < j /\ Invokes = {i, j}
                    /\ calls[i].arg = "GetScriptRevisionHash"
                    /\ calls[j].arg = "AddScripts"

\* TestDll has run to its end on a library exporting the three symbols: two
\* calls through the module, then the unload.
C16_Witness ==
    /\ caller = "TestDll" /\ pc = "idle"
    /\ Cardinality(Invokes) = 2 /\ Cardinality(Unloads) = 1
    /\ ~SymbolMissing


\* The statements of TestDll and CreateFromPath in program order.
ProgramOrder ==
    <<"td_begin", "td_exists", "td_create", "cfp_open", "cfp_sym1", "cfp_sym2",
      "cfp_sym3", "cfp_make", "cfp_ret", "td_copy", "td_info", "td_add",
      "td_exit1", "td_exit2", "idle">>
Position(l) == CHOOSE i \in DOMAIN ProgramOrder : ProgramOrder[i] = l

\* The outcome TestDll returned with.
Outcome ==
    IF pc # "idle" \/ caller # "TestDll" THEN "running"
    ELSE IF \A i \in DOMAIN calls : calls[i].op = "exists" THEN "rejected"
    ELSE IF Unloads # {} /\ ~SymbolMissing THEN "Ready, unloaded"
    ELSE "Failed"

\* C17: every TestDll call in progress eventually returns to its caller,
\* with one of the outcomes rejected, Failed, or Ready followed by the
\* unload; every step of a call moves forward in the program text, so no
\* loop or retry can keep it from finishing.
C17_TestDllReturns ==
    /\ (caller = "TestDll" /\ pc # "idle")
          ~> (Outcome \in {"rejected", "Failed", "Ready, unloaded"})
    /\ [][pc # "idle" => Position(pc') > Position(pc)]_vars

\* TestDll has returned after binding the module, calling it and unloading it.
C17_Witness ==
    /\ Outcome = "Ready, unloaded"
    /\ handle \notin mapped /\ counter = 1


\* C18: TestDll calls CreateFromPath with no cache path: along every run of
\* TestDll the native open is made on the caller's own path, the deleter was
\* built without a cache path, it makes no fs::remove call and logs no
\* deletion, and the files on disk stay as they were, whatever the open,
\* the lookups and the unload return.
C18_TestDllDeletesNothing ==
    /\ [](caller = "TestDll" =>
            /\ pc \in {"cfp_open", "cfp_sym1", "cfp_sym2", "cfp_sym3", "cfp_make", "cfp_ret"}
                  => (cache_path = NoCache /\ path = dllPath)
            /\ \A i \in DOMAIN calls :
                  /\ calls[i].op = "open" => calls[i].arg = dllPath
                  /\ calls[i].op = "deleter" => calls[i].arg = NoCache
                  /\ calls[i].op # "remove"
            /\ \A j \in DOMAIN log :
                  log[j] \notin {MsgDeleteFailed(cp) : cp \in FilePaths}
                                   \cup {MsgUnloadedDeleted(dllPath, cp) : cp \in FilePaths})
    /\ [][caller' = "TestDll" => fsFiles' = fsFiles]_vars

\* TestDll has returned after an open, a failed lookup and a successful
\* unload; the file it loaded is still on disk.
C18_Witness ==
    /\ caller = "TestDll" /\ pc = "idle"
    /\ SymbolMissing
    /\ \E i \in Unloads : calls[i].res
    /\ dllPath \in fsFiles


\* What a call must invoke when the latest registered pointer is fp.
Expected(fp, args) ==
    IF registered = Never \/ fp = NullPtr THEN <<>> ELSE <<Invocation(fp, args)>>

\* C19: in the companion library, a Print call invokes exactly the
\* no-argument callback of the latest RegisterFunctions call, once, and a
\* PrintValue(a, b) call invokes exactly the latest two-argument callback,
\* once, with (a, b); when RegisterFunctions was never called, or the latest
\* pointer is null, the call invokes nothing and prints one line.
C19_LatestCallbackInvoked ==
    /\ armOp.op = "Print" =>
          /\ armCalls = Expected(IF registered = Never THEN NullPtr ELSE registered[1], <<>>)
          /\ Len(armOut) = 1
    /\ armOp.op = "PrintValue" =>
          /\ armCalls = Expected(IF registered = Never THEN NullPtr ELSE registered[2],
                                 armOp.args)
          /\ Len(armOut) = 1
    /\ armOp.op = "RegisterFunctions" => armCalls = <<>>

\* PrintValue(-1, 7) has invoked the second callback registered, after a
\* registration that left the no-argument callback null.
C19_Witness ==
    /\ armOp = [op |-> "PrintValue", args |-> <<-1, 7>>]
    /\ registered = <<NullPtr, "onPrintInt2">>
    /\ armCalls = <<Invocation("onPrintInt2", <<-1, 7>>)>>
    /\ functionBest = EmptyFunction

====
